---- MODULE Spec2Model ----
(***************************************************************************)
(* A model of the mini React of src/src/index.tsx: node descriptions       *)
(* (VDOM), the initial mount, the diff (compareNode / walkChildren / walk),*)
(* the patch applier, the state store behind useState and the render       *)
(* driver (rerender).                                                      *)
(*                                                                         *)
(* JavaScript values are tagged records, so that truthiness, `!==` and the *)
(* string conversion done by the DOM are computed as the language computes *)
(* them.  Object identity (arrays, closures) is an explicit reference.     *)
(***************************************************************************)
EXTENDS Integers, Sequences, FiniteSets, TLC

VARIABLES
    states,     \* the state store: key -> value           (index.tsx:126)
    oldVDOM,    \* the Previous-Tree Reference             (index.tsx:56)
    dom,        \* the live display tree: the #app container and below
    fresh,      \* source of fresh identities: v4() results and object refs
    cycle,      \* number of completed re-render cycles
    renders,    \* number of component invocations so far
    hook,       \* the last useState call: key claimed, value returned
    lastSet,    \* the last setter call: key written, value stored
    newVDOM,    \* the tree handed to the last diff (index.tsx:415)
    changes,    \* the change list of the last diff (index.tsx:416)
    baseVDOM,   \* the tree the last diff was taken against
    nextTree,   \* the hand-built tree the next cycle will be given
    edits,      \* number of edits made to nextTree
    log,        \* the steps taken so far
    trace,      \* the display tree before the last patch and after each of
                \* its changes
    claimed     \* the keys claimed by the useState calls of the render pass

vars == <<states, oldVDOM, dom, fresh, cycle, renders, hook, lastSet,
          newVDOM, changes, baseVDOM, nextTree, edits, log, trace, claimed>>

-----------------------------------------------------------------------------
(* Bounds *)

MaxRenders == 4     \* component invocations allowed in one behaviour
MaxNum == 2         \* literals handed to a setter are 0..MaxNum
MaxEdits == 2       \* edits that derive the next tree from the mounted one
MaxCycles == 1      \* re-render cycles run on hand-built trees
MaxSteps == 4       \* steps of a behaviour that calls the state store directly

-----------------------------------------------------------------------------
(* JavaScript values *)

Num(n) == [t |-> "number", n |-> n]
Str(s) == [t |-> "string", s |-> s]
Bool(b) == [t |-> "boolean", b |-> b]
Null == [t |-> "null"]
Undefined == [t |-> "undefined"]
\* a style object: an ordered list of [prop, value] entries, and the
\* reference of the object
Obj(entries, ref) == [t |-> "object", entries |-> entries, ref |-> ref]
\* the closure handleClick of one App invocation (index.tsx:167-173): it
\* captures count and setCount, and setCount captures FROZEN_KEY
HandleClick(count, key, ref) ==
    [t |-> "function", fn |-> "handleClick", count |-> count, key |-> key,
     ref |-> ref]
\* a state callback prevState => prevState + 1 (index.tsx:172)
Increment == [t |-> "function", fn |-> "increment"]

\* ToBoolean: what `x ? a : b`, `x || y` and `!x` test
Truthy(v) ==
    CASE v.t = "number" -> v.n # 0
      [] v.t = "string" -> v.s # ""
      [] v.t = "boolean" -> v.b
      [] v.t = "null" -> FALSE
      [] v.t = "undefined" -> FALSE
      [] OTHER -> TRUE

\* typeof v === 'object' (null included), index.tsx:36
TypeofObject(v) == "type" \in DOMAIN v \/ v.t \in {"null", "object"}

\* typeof v === 'function', index.tsx:145
TypeofFunction(v) == v.t = "function"

Digits == <<"0", "1", "2", "3", "4", "5", "6", "7", "8", "9">>

RECURSIVE NumStr(_)
NumStr(n) ==
    IF n < 10 THEN Digits[n + 1]
    ELSE NumStr(n \div 10) \o Digits[(n % 10) + 1]

\* ToString, as document.createTextNode and setAttribute apply it
ToStr(v) ==
    CASE v.t = "number" -> NumStr(v.n)
      [] v.t = "string" -> v.s
      [] v.t = "boolean" -> (IF v.b THEN "true" ELSE "false")
      [] v.t = "null" -> "null"
      [] v.t = "undefined" -> "undefined"
      [] v.t = "object" -> "[object Object]"
      [] OTHER -> "function"

\* count + 1 of handleClick (index.tsx:169), on numbers
Plus1(v) == Num(v.n + 1)

-----------------------------------------------------------------------------
(* Node descriptions *)

TEXT_ELEMENT == "TEXT_ELEMENT"

\* the only component of the program (index.tsx:164)
Components == {"App"}

\* typeof vdom.type === 'function', index.tsx:61
IsComponent(type) == type \in Components

\* A VDOMNode (index.tsx:17-24).  props holds the entries of vdom.props
\* other than children, in insertion order; children is props.children and
\* cref the identity of that array object.
VNode(type, id, props, children, cref) ==
    [type |-> type, id |-> id, props |-> props, children |-> children,
     cref |-> cref]

Prop(key, value) == [key |-> key, value |-> value]

\* createTextElement (index.tsx:45-54); id is the v4() of the call
createTextElement(text, id) ==
    VNode(TEXT_ELEMENT, id, <<Prop("nodeValue", text)>>, <<>>, id)

\* React.createElement (index.tsx:27-40).  The node takes the first fresh
\* identity, each non-object child becomes a text element with the next one.
\* The children array is a new object on every call: its reference is the
\* node's own fresh identity.
createElement(type, props, children, ctx) ==
    LET id == ctx.fresh
        texts(i) == Cardinality({j \in 1..i : ~TypeofObject(children[j])})
        kids == [i \in 1..Len(children) |->
                    IF TypeofObject(children[i]) THEN children[i]
                    ELSE createTextElement(children[i], id + texts(i))]
    IN  [vdom |-> VNode(type, id, props, kids, id),
         ctx |-> [ctx EXCEPT !.fresh = id + 1 + texts(Len(children))]]

-----------------------------------------------------------------------------
(* The state store and useState *)

\* START_ID = v4() at module load (index.tsx:124): the first identity
START_ID == 0

\* states[key], undefined for a key never written
Lookup(st, key) == IF key \in DOMAIN st THEN st[key] ELSE Undefined

\* useState (index.tsx:132-158) up to the return: the key claimed, the slot
\* write of line 142 and the value returned.
\* line 142 and the return, for the key claimed and the slot's value
UseSlot(FROZEN_KEY, cur, val, minted, ctx) ==
    [value |-> val, key |-> FROZEN_KEY,
     ctx |-> [ctx EXCEPT
                !.states = [k \in DOMAIN ctx.states \cup {FROZEN_KEY} |->
                              IF k = FROZEN_KEY THEN val ELSE ctx.states[k]],
                !.fresh = ctx.fresh + minted,
                !.hook = [key |-> FROZEN_KEY, value |-> val, prior |-> cur],
                !.renders = ctx.renders + 1]]

\* states[FROZEN_KEY] || initialState
SlotOr(cur, initialState) == IF Truthy(cur) THEN cur ELSE initialState

UseKey(FROZEN_KEY, initialState, minted, ctx) ==
    UseSlot(FROZEN_KEY, Lookup(ctx.states, FROZEN_KEY),
            SlotOr(Lookup(ctx.states, FROZEN_KEY), initialState), minted, ctx)

useState(initialState, ctx) ==
    IF Truthy(Lookup(ctx.states, START_ID))
    THEN UseKey(ctx.fresh, initialState, 1, ctx)
    ELSE UseKey(START_ID, initialState, 0, ctx)

\* App (index.tsx:164-188): one useState(0), one closure, and
\* <div><h1>Count: {count}</h1><button onClick=...>Click Me</button></div>
\* the steps are chained through operator arguments: each intermediate
\* result is computed once
AppDiv(h1, button) ==
    createElement("div", <<>>, <<h1.vdom, button.vdom>>, button.ctx)

AppButton(h1, handleClick) ==
    AppDiv(h1, createElement("button", <<Prop("onClick", handleClick)>>,
                             <<Str("Click Me")>>, h1.ctx))

AppH1(count, handleClick, ctx) ==
    AppButton(createElement("h1", <<>>, <<Str("Count: "), count>>, ctx),
              handleClick)

AppBody(us) ==
    AppH1(us.value, HandleClick(us.value, us.key, us.ctx.fresh),
          [us.ctx EXCEPT !.fresh = us.ctx.fresh + 1])

App(props, ctx) == AppBody(useState(Num(0), ctx))

\* vdom.type(vdom.props), index.tsx:62
CallComponent(type, props, ctx) == App(props, ctx)

\* getNewVDOM (index.tsx:160-162): <App />, which is createElement(App, null)
\* and does not invoke App
getNewVDOM(ctx) == createElement("App", <<>>, <<>>, ctx)

-----------------------------------------------------------------------------
(* The display tree *)

\* a display element; born is the render cycle that created the node
Element(tag, attrs, born) ==
    [kind |-> "element", tag |-> tag, attrs |-> attrs, listeners |-> <<>>,
     children |-> <<>>, born |-> born]

\* document.createTextNode(value)
TextNode(value, born) == [kind |-> "text", value |-> ToStr(value), born |-> born]

\* an absent container: document.querySelector('#app') found nothing
NoContainer == [kind |-> "null"]

\* the #app element of the page, empty
AppContainer == Element("div", [n \in {"id"} |-> "app"], -1)

\* a parent for nodes that are built outside the document
Detached == Element("#fragment", <<>>, -1)

\* element.setAttribute(name, value): the value is stored as a string
setAttribute(el, name, value) ==
    [el EXCEPT !.attrs = [k \in DOMAIN el.attrs \cup {name} |->
                             IF k = name THEN ToStr(value) ELSE el.attrs[k]]]

\* element.addEventListener(event, handler)
addEventListener(el, event, handler) ==
    [el EXCEPT !.listeners = Append(el.listeners,
                                    [event |-> event, handler |-> handler])]

\* appendChild that puts the node before the children already there
prependChild(el, node) == [el EXCEPT !.children = <<node>> \o el.children]

\* container.appendChild(node)
appendChild(el, node) == [el EXCEPT !.children = Append(el.children, node)]

\* key.startsWith('on') (index.tsx:75), on the attribute names of the model
EventKeys == {"onClick", "onInput"}
IsEventAttribute(key) == key \in EventKeys

\* key.substring(2).toLowerCase() (index.tsx:78)
EventName(key) == IF key = "onClick" THEN "click" ELSE "input"

\* Object.entries(style).map(([p, v]) => `${p}: ${v}`).join('; ')
RECURSIVE StyleString(_)
StyleString(entries) ==
    IF entries = <<>> THEN ""
    ELSE LET e == entries[1]
             one == e.prop \o ": " \o ToStr(e.value)
         IN  IF Len(entries) = 1 THEN one
             ELSE one \o "; " \o StyleString(Tail(entries))

\* one turn of the forEach over the props of index.tsx:74-112
ApplyProp(el, p) ==
    IF IsEventAttribute(p.key)
    THEN addEventListener(el, EventName(p.key), p.value)
    ELSE LET e1 == IF p.key = "className"
                   THEN setAttribute(el, "class", p.value) ELSE el
             e2 == IF p.key = "htmlFor"
                   THEN setAttribute(e1, "for", p.value) ELSE e1
         IN  IF p.key = "style" /\ TypeofObject(p.value)
             THEN setAttribute(e2, "style", Str(StyleString(p.value.entries)))
             ELSE setAttribute(e2, p.key, p.value)

RECURSIVE ApplyProps(_, _, _)
ApplyProps(el, props, i) ==
    IF i > Len(props) THEN el
    ELSE ApplyProps(ApplyProp(el, props[i]), props, i + 1)

\* vdom.props[key], undefined when the key is absent
PropValue(vdom, key) ==
    LET hits == {i \in 1..Len(vdom.props) : vdom.props[i].key = key}
    IN  IF hits = {} THEN Undefined
        ELSE vdom.props[CHOOSE i \in hits : \A j \in hits : j <= i].value

\* initialRender (index.tsx:58-122).  The display tree is a value here, so
\* the new element receives its children before it is appended; the tree
\* built is the one the code builds by appending first.
RECURSIVE InitialRender(_, _, _)
RECURSIVE MountChildren(_, _, _, _)

\* oldVDOM = vdom, the last line of a call (index.tsx:121)
Mounted(container, ctx, vdom) ==
    [container |-> container, ctx |-> [ctx EXCEPT !.oldVDOM = vdom]]

MountedOf(m, vdom) == Mounted(m.container, m.ctx, vdom)

\* index.tsx:63, then line 121
MountRendered(r, vdom, container) ==
    MountedOf(InitialRender(r.vdom, container, r.ctx), vdom)

\* index.tsx:114-118, then line 121
MountElement(m, vdom, container) ==
    Mounted(appendChild(container, m.container), m.ctx, vdom)

InitialRender(vdom, container, ctx) ==
    IF container = NoContainer THEN [container |-> container, ctx |-> ctx]
    ELSE IF IsComponent(vdom.type)
    THEN MountRendered(CallComponent(vdom.type, vdom.props, ctx), vdom,
                       container)
    ELSE IF vdom.type = TEXT_ELEMENT
    THEN [container |->
            appendChild(container,
                        TextNode(PropValue(vdom, "nodeValue"), ctx.cycle)),
          ctx |-> ctx]
    ELSE MountElement(
             MountChildren(vdom.children, 1,
                 ApplyProps(Element(vdom.type, [n \in {"data-id"} |-> vdom.id],
                                    ctx.cycle),
                            vdom.props, 1),
                 ctx),
             vdom, container)

MountNext(children, i, m) ==
    MountChildren(children, i + 1, m.container, m.ctx)

\* children.forEach((child) => initialRender(child, newElement))
MountChildren(children, i, el, ctx) ==
    IF i > Len(children) THEN [container |-> el, ctx |-> ctx]
    ELSE MountNext(children, i, InitialRender(children[i], el, ctx))

Built(m, ctx) ==
    [node |-> m.container.children[1],
     ctx |-> [m.ctx EXCEPT !.oldVDOM = ctx.oldVDOM]]

\* createRealDOMElementWithVDOM: the node that the mounting algorithm builds
\* for vdom, outside the document.  It is handed to mutateDomCallback.
createRealDOMElementWithVDOM(vdom, ctx) ==
    Built(InitialRender(vdom, Detached, ctx), ctx)

-----------------------------------------------------------------------------
(* Locating and replacing display nodes *)

\* no element matches
NotFound == <<0>>

\* document.querySelector(`[data-id="${id}"]`): the path (child indexes from
\* the container) of the first match in document order
RECURSIVE querySelector(_, _)
RECURSIVE QueryChildren(_, _, _)
querySelector(node, id) ==
    IF node.kind # "element" THEN NotFound
    ELSE IF "data-id" \in DOMAIN node.attrs /\ node.attrs["data-id"] = id
    THEN <<>>
    ELSE QueryChildren(node.children, 1, id)

QueryNext(children, i, id, p) ==
    IF p # NotFound THEN <<i>> \o p ELSE QueryChildren(children, i + 1, id)

QueryChildren(children, i, id) ==
    IF i > Len(children) THEN NotFound
    ELSE QueryNext(children, i, id, querySelector(children[i], id))

\* the node at a path
RECURSIVE NodeAt(_, _)
NodeAt(node, path) ==
    IF path = <<>> THEN node ELSE NodeAt(node.children[path[1]], Tail(path))

\* the tree with the child list of the node at a path set to kids
RECURSIVE SetChildrenAt(_, _, _)
SetChildrenAt(node, path, kids) ==
    IF path = <<>> THEN [node EXCEPT !.children = kids]
    ELSE [node EXCEPT !.children[path[1]] =
                         SetChildrenAt(node.children[path[1]], Tail(path), kids)]

Front(path) == SubSeq(path, 1, Len(path) - 1)
Last(path) == path[Len(path)]

RemoveIndex(seq, i) == SubSeq(seq, 1, i - 1) \o SubSeq(seq, i + 1, Len(seq))

\* replaceWith that leaves the element in place after the new one
insertBefore(root, path, newElement) ==
    IF path = <<>> THEN root
    ELSE LET parent == NodeAt(root, Front(path))
         IN  SetChildrenAt(root, Front(path),
                 SubSeq(parent.children, 1, Last(path) - 1)
                 \o <<newElement>>
                 \o SubSeq(parent.children, Last(path), Len(parent.children)))

\* element.replaceWith(newElement), element at a path
replaceWith(root, path, newElement) ==
    IF path = <<>> THEN root
    ELSE LET parent == NodeAt(root, Front(path))
         IN  SetChildrenAt(root, Front(path),
                 [parent.children EXCEPT ![Last(path)] = newElement])

\* element.remove(), element at a path
remove(root, path) ==
    IF path = <<>> THEN root
    ELSE LET parent == NodeAt(root, Front(path))
         IN  SetChildrenAt(root, Front(path),
                 RemoveIndex(parent.children, Last(path)))

\* parentElement.replaceChild(newChild, parentElement.firstChild),
\* parentElement at a path
replaceFirstChild(root, path, newChild) ==
    LET parent == NodeAt(root, path)
    IN  IF parent.children = <<>> THEN root
        ELSE SetChildrenAt(root, path,
                 [parent.children EXCEPT ![1] = newChild])

\* parentElement.appendChild(newElement), parentElement at a path
appendChildAt(root, path, newElement) ==
    SetChildrenAt(root, path, Append(NodeAt(root, path).children, newElement))

-----------------------------------------------------------------------------
(* The diff engine *)

\* the variants of Change (index.tsx:190-213)
ReplaceNodeWhereIdChanged(vdom, oldNodeId) ==
    [type |-> "REPLACE_NODE_WHERE_ID_CHANGED", vdom |-> vdom,
     oldNodeId |-> oldNodeId]
NewNodeAdded(vdom, parentId) ==
    [type |-> "NEW_NODE_ADDED", vdom |-> vdom, parentId |-> parentId]
ReplaceText(vdom, oldNodeId) ==
    [type |-> "REPLACE_TEXT", vdom |-> vdom, oldNodeId |-> oldNodeId]
DeleteOld(vdom) == [type |-> "DELETE_OLD", vdom |-> vdom]
ReplaceNode(vdom) == [type |-> "REPLACE_NODE", vdom |-> vdom]

\* Object.keys(node.props): the props in insertion order, children last
\* (createElement and createTextElement both write children last)
PropsKeys(node) ==
    [i \in 1..Len(node.props) |-> node.props[i].key] \o <<"children">>

\* node.props[key]; the value of children is the array object, which is
\* the same object as another only if it has the same reference
PropsGet(node, key) ==
    IF key = "children"
    THEN [t |-> "array", ref |-> node.cref, items |-> node.children]
    ELSE PropValue(node, key)

\* a !== b: primitives by value, objects (which carry their reference) by
\* reference
StrictNotEqual(a, b) == a # b

\* !keys[i]: no key at this index, or the empty key
NoKey(keys, i) == i > Len(keys) \/ keys[i] = ""

\* the loop over the props of compareNode (index.tsx:247-270), from index i
RECURSIVE CompareProps(_, _, _)
CompareProps(oldNode, newNode, i) ==
    LET oldNodePropsKeys == PropsKeys(oldNode)
        newNodePropsKeys == PropsKeys(newNode)
    IN  IF i > Len(oldNodePropsKeys) /\ i > Len(newNodePropsKeys) THEN <<>>
        ELSE IF NoKey(oldNodePropsKeys, i) THEN <<ReplaceNode(newNode)>>
        ELSE IF NoKey(newNodePropsKeys, i) THEN <<ReplaceNode(oldNode)>>
        ELSE IF StrictNotEqual(PropsGet(oldNode, oldNodePropsKeys[i]),
                               PropsGet(newNode, newNodePropsKeys[i]))
        THEN <<ReplaceNode(newNode)>>
        ELSE CompareProps(oldNode, newNode, i + 1)

\* compareNode with the text test turned around: a change is reported for
\* the text nodes whose values are equal
compareNodeTextEqual(oldNode, newNode) ==
    IF oldNode.id # newNode.id
    THEN <<ReplaceNodeWhereIdChanged(newNode, oldNode.id)>>
    ELSE IF oldNode.type # newNode.type THEN <<ReplaceNode(newNode)>>
    ELSE IF oldNode.type = TEXT_ELEMENT /\ newNode.type = TEXT_ELEMENT
    THEN IF PropValue(oldNode, "nodeValue") = PropValue(newNode, "nodeValue")
         THEN <<ReplaceText(newNode, oldNode.id)>>
         ELSE <<>>
    ELSE CompareProps(oldNode, newNode, 1)

\* compareNode (index.tsx:215-273)
compareNode(oldNode, newNode) ==
    IF oldNode.id # newNode.id
    THEN <<ReplaceNodeWhereIdChanged(newNode, oldNode.id)>>
    ELSE IF oldNode.type # newNode.type THEN <<ReplaceNode(newNode)>>
    ELSE IF oldNode.type = TEXT_ELEMENT /\ newNode.type = TEXT_ELEMENT
    THEN IF StrictNotEqual(PropValue(oldNode, "nodeValue"),
                           PropValue(newNode, "nodeValue"))
         THEN <<ReplaceText(newNode, oldNode.id)>>
         ELSE <<>>
    ELSE CompareProps(oldNode, newNode, 1)

\* !children[i]: no child at this index
NoChild(children, i) ==
    i > Len(children)
    \/ ("t" \in DOMAIN children[i] /\ ~Truthy(children[i]))

\* walk (index.tsx:309-328) and walkChildren (index.tsx:275-307), the loop
\* from index i
RECURSIVE walk(_, _)
RECURSIVE walkChildren(_, _, _, _)
\* walk that reports the children before the node itself
walkChildrenFirst(oldNode, newNode) ==
    (IF "children" \notin DOMAIN oldNode \/ "children" \notin DOMAIN newNode
     THEN <<>>
     ELSE walkChildren(oldNode.children, newNode.children, oldNode.id, 1))
    \o compareNode(oldNode, newNode)

walk(oldNode, newNode) ==
    compareNode(oldNode, newNode)
    \o (IF "children" \notin DOMAIN oldNode \/ "children" \notin DOMAIN newNode
        THEN <<>>
        ELSE walkChildren(oldNode.children, newNode.children, oldNode.id, 1))

walkChildren(oldChildren, newChildren, parentId, i) ==
    IF i > Len(oldChildren) /\ i > Len(newChildren) THEN <<>>
    ELSE LET here ==
                 IF NoChild(oldChildren, i)
                 THEN <<NewNodeAdded(newChildren[i], parentId)>>
                 ELSE IF NoChild(newChildren, i)
                 THEN <<DeleteOld(oldChildren[i])>>
                 ELSE walk(oldChildren[i], newChildren[i])
         IN  here \o walkChildren(oldChildren, newChildren, parentId, i + 1)

\* diff (index.tsx:330-332)
diff(oldTree, newTree) == walk(oldTree, newTree)

-----------------------------------------------------------------------------
(* The patch applier *)

\* the identity a change is looked up by (index.tsx:337, 365, 376, 389, 403)
TargetId(change) ==
    CASE change.type \in {"REPLACE_TEXT", "REPLACE_NODE_WHERE_ID_CHANGED"} ->
            change.oldNodeId
      [] change.type = "NEW_NODE_ADDED" -> change.parentId
      [] OTHER -> change.vdom.id

\* ApplyBuilt that falls back to the container when the lookup finds nothing
ApplyBuiltOrAppend(change, ctx, made) ==
    IF querySelector(ctx.dom, TargetId(change)) = NotFound
    THEN [made.ctx EXCEPT !.dom = appendChild(ctx.dom, made.node)]
    ELSE IF change.type = "NEW_NODE_ADDED"
    THEN [made.ctx EXCEPT !.dom =
            appendChildAt(ctx.dom, querySelector(ctx.dom, TargetId(change)),
                          made.node)]
    ELSE [made.ctx EXCEPT !.dom =
            replaceWith(ctx.dom, querySelector(ctx.dom, TargetId(change)),
                        made.node)]

\* the three changes that build a node: mutateDomCallback(newElement) with
\* the element that querySelector found (index.tsx:356-399)
ApplyBuilt(change, ctx, made) ==
    CASE change.type = "REPLACE_NODE" ->
            IF querySelector(ctx.dom, change.vdom.id) = NotFound THEN made.ctx
            ELSE [made.ctx EXCEPT !.dom =
                    replaceWith(ctx.dom,
                                querySelector(ctx.dom, change.vdom.id),
                                made.node)]
      [] change.type = "REPLACE_NODE_WHERE_ID_CHANGED" ->
            IF querySelector(ctx.dom, change.oldNodeId) = NotFound
            THEN made.ctx
            ELSE [made.ctx EXCEPT !.dom =
                    replaceWith(ctx.dom,
                                querySelector(ctx.dom, change.oldNodeId),
                                made.node)]
      [] change.type = "NEW_NODE_ADDED" ->
            IF querySelector(ctx.dom, change.parentId) = NotFound
            THEN made.ctx
            ELSE [made.ctx EXCEPT !.dom =
                    appendChildAt(ctx.dom,
                                  querySelector(ctx.dom, change.parentId),
                                  made.node)]

\* one turn of the forEach of applyChangesToRealDOM (index.tsx:335-409)
ApplyChange(change, ctx) ==
    IF change.type = "REPLACE_TEXT"
    THEN IF querySelector(ctx.dom, change.oldNodeId) = NotFound THEN ctx
         ELSE [ctx EXCEPT !.dom =
                 replaceFirstChild(ctx.dom,
                     querySelector(ctx.dom, change.oldNodeId),
                     TextNode(PropValue(change.vdom, "nodeValue"), ctx.cycle))]
    ELSE IF change.type = "DELETE_OLD"
    THEN IF querySelector(ctx.dom, change.vdom.id) = NotFound THEN ctx
         ELSE [ctx EXCEPT !.dom =
                 remove(ctx.dom, querySelector(ctx.dom, change.vdom.id))]
    ELSE ApplyBuilt(change, ctx,
                    createRealDOMElementWithVDOM(change.vdom, ctx))

\* the display tree as one turn of the forEach leaves it, kept for
\* observation
Traced(ctx) == [ctx EXCEPT !.trace = Append(ctx.trace, ctx.dom)]

\* applyChangesToRealDOM (index.tsx:334-410), from change i
RECURSIVE applyChangesToRealDOM(_, _, _)
applyChangesToRealDOM(list, i, ctx) ==
    IF i > Len(list) THEN ctx
    ELSE applyChangesToRealDOM(list, i + 1, Traced(ApplyChange(list[i], ctx)))

-----------------------------------------------------------------------------
(* The render driver and the setter *)

\* oldVDOM = null (index.tsx:56)
NoVDOM == [type |-> "null"]

\* oldVDOM = newVDOM (index.tsx:418), with the record of the cycle
CycleDone(tree, list, base, ctx) ==
    [ctx EXCEPT !.oldVDOM = tree, !.newVDOM = tree, !.changes = list,
                !.baseVDOM = base]

\* applyChangesToRealDOM(changes) (index.tsx:417)
CyclePatch(tree, list, ctx) ==
    CycleDone(tree, list, ctx.oldVDOM,
              applyChangesToRealDOM(list, 1,
                                    [ctx EXCEPT !.cycle = ctx.cycle + 1,
                                                !.trace = <<ctx.dom>>]))

\* one re-render cycle from a given new tree (index.tsx:416-418)
Cycle(tree, ctx) == CyclePatch(tree, diff(ctx.oldVDOM, tree), ctx)

CycleOf(made) == Cycle(made.vdom, made.ctx)

\* rerender without the test of line 413: with no previous tree it takes
\* the new tree as the previous one
rerenderWithoutSkip(ctx) ==
    IF ctx.oldVDOM = NoVDOM
    THEN [getNewVDOM(ctx).ctx EXCEPT !.oldVDOM = getNewVDOM(ctx).vdom]
    ELSE CycleOf(getNewVDOM(ctx))

\* rerender (index.tsx:412-419)
rerender(ctx) ==
    IF ctx.oldVDOM = NoVDOM THEN ctx ELSE CycleOf(getNewVDOM(ctx))

\* the callback called with the initial value of the counter, not with the
\* current value of the slot
CallStateWithInitial(callback, prev) == Plus1(Num(0))

\* callback(states[FROZEN_KEY]) for the callback prev => prev + 1
CallState(callback, prev) == Plus1(prev)

\* the slot write of setState and its rerender() (index.tsx:149-154)
Store(key, stored, newState, ctx) ==
    rerender([ctx EXCEPT
                !.states = [k \in DOMAIN ctx.states \cup {key} |->
                              IF k = key THEN stored ELSE ctx.states[k]],
                !.lastSet = [key |-> key, value |-> stored,
                             arg |-> newState, before |-> ctx.cycle,
                             prev |-> [key |-> ctx.lastSet.key,
                                       before |-> ctx.lastSet.before]]])

\* setState (index.tsx:144-155) of the useState call that claimed key
setState(key, newState, ctx) ==
    IF TypeofFunction(newState)
    THEN Store(key, CallState(newState, Lookup(ctx.states, key)), newState,
               ctx)
    ELSE Store(key, newState, newState, ctx)

-----
(* The program: mount of <App /> and the events that follow *)

Ctx ==
    [states |-> states, oldVDOM |-> oldVDOM, dom |-> dom, fresh |-> fresh,
     cycle |-> cycle, renders |-> renders, hook |-> hook,
     lastSet |-> lastSet, newVDOM |-> newVDOM, changes |-> changes,
     baseVDOM |-> baseVDOM, trace |-> trace]

Commit(c, step) ==
    /\ states' = c.states
    /\ oldVDOM' = c.oldVDOM
    /\ dom' = c.dom
    /\ fresh' = c.fresh
    /\ cycle' = c.cycle
    /\ renders' = c.renders
    /\ hook' = c.hook
    /\ lastSet' = c.lastSet
    /\ newVDOM' = c.newVDOM
    /\ changes' = c.changes
    /\ baseVDOM' = c.baseVDOM
    /\ trace' = c.trace
    /\ log' = Append(log, step)

NoHook == [key |-> -1]
NoSet == [key |-> -1, before |-> 0]

\* the state of the module before its last line runs
Init ==
    /\ states = [k \in {START_ID} |-> Null]
    /\ oldVDOM = NoVDOM
    /\ dom = AppContainer
    /\ fresh = START_ID + 1
    /\ cycle = 0
    /\ renders = 0
    /\ hook = NoHook
    /\ lastSet = NoSet
    /\ newVDOM = NoVDOM
    /\ changes = <<>>
    /\ baseVDOM = NoVDOM
    /\ nextTree = NoVDOM
    /\ edits = 0
    /\ log = <<>>
    /\ trace = <<>>
    /\ claimed = <<>>

\* a top-level initialRender: the container written back is the document
InDocument(m) ==
    IF m.container = NoContainer THEN m.ctx
    ELSE [m.ctx EXCEPT !.dom = m.container]

MountTop(made, container) ==
    InDocument(InitialRender(made.vdom, container, made.ctx))

\* initialRender(<App />, document.querySelector('#app')), index.tsx:421
Mount ==
    /\ renders < MaxRenders
    /\ Commit(MountTop(getNewVDOM(Ctx), dom), "mount")
    /\ UNCHANGED <<nextTree, edits, claimed>>

\* the same call on a page without the #app element
MountAbsent ==
    /\ log = <<>>
    /\ Commit(MountTop(getNewVDOM(Ctx), NoContainer), "absent")
    /\ UNCHANGED <<nextTree, edits, claimed>>

\* the paths of the elements with a tag, in document order
RECURSIVE PathsByTag(_, _)
PathsByTag(node, tag) ==
    IF node.kind # "element" THEN {}
    ELSE (IF node.tag = tag THEN {<<>>} ELSE {})
         \cup UNION {{<<i>> \o p : p \in PathsByTag(node.children[i], tag)} :
                        i \in 1..Len(node.children)}

Range(seq) == {seq[i] : i \in 1..Len(seq)}

\* the keys for which a setter closure exists: every key claimed by a
\* useState call
Setters == IF renders = 0 THEN {} ELSE DOMAIN states

\* a click on a live button: its click listener runs handleClick
\* (index.tsx:167-173), that is setCount(count + 1)
Click ==
    /\ renders < MaxRenders
    /\ \E p \in PathsByTag(dom, "button") :
         \E l \in Range(NodeAt(dom, p).listeners) :
            /\ l.event = "click"
            /\ Commit(setState(l.handler.key, Plus1(l.handler.count), Ctx),
                      "click")
    /\ UNCHANGED <<nextTree, edits, claimed>>

\* the literals user code hands to a setter
Literals ==
    {Num(n) : n \in 0..MaxNum} \cup {Null, Bool(FALSE), Str("")}

\* a setter called with a literal
SetLiteral ==
    /\ renders < MaxRenders
    /\ \E key \in Setters : \E v \in Literals :
          Commit(setState(key, v, Ctx), "set")
    /\ UNCHANGED <<nextTree, edits, claimed>>

\* a setter called with the callback prev => prev + 1 (index.tsx:172)
SetCallback ==
    /\ renders < MaxRenders
    /\ \E key \in Setters :
          /\ states[key].t = "number"
          /\ states[key].n <= MaxNum
          /\ Commit(setState(key, Increment, Ctx), "callback")
    /\ UNCHANGED <<nextTree, edits, claimed>>

Next == Mount \/ MountAbsent \/ Click \/ SetLiteral \/ SetCallback

Spec == Init /\ [][Next]_vars

-----------------------------------------------------------------------------
(* Hand-built trees: the diff and the patch on trees other than <App /> *)

\* a text description and an element description with explicit identities;
\* the children array of a newly built element is an object of its own
Text(id, s) == createTextElement(Str(s), id)
Elem(type, id, props, children) == VNode(type, id, props, children, id)

\* the trees that are mounted first
BaseTrees ==
    { Elem("div", 1, <<>>, <<Text(2, "a")>>),
      Elem("div", 1, <<>>,
           <<Elem("p", 2, <<>>, <<Text(3, "a")>>), Text(4, "b")>>),
      Elem("div", 1, <<Prop("title", Str("x"))>>,
           <<Elem("span", 2, <<>>, <<>>), Elem("p", 3, <<>>, <<>>)>>),
      Elem("div", 1, <<>>, <<Elem("App", 2, <<>>, <<>>)>>),
      Text(1, "a") }

\* the paths of the nodes of a description tree
RECURSIVE VPaths(_)
VPaths(node) ==
    {<<>>} \cup UNION {{<<i>> \o p : p \in VPaths(node.children[i])} :
                          i \in 1..Len(node.children)}

\* a copy of the tree with the node at a path replaced: the copy shares
\* every array that the replacement leaves untouched
RECURSIVE VSetAt(_, _, _)
VSetAt(node, path, new) ==
    IF path = <<>> THEN new
    ELSE [node EXCEPT !.children[path[1]] =
                         VSetAt(node.children[path[1]], Tail(path), new)]

TextValues == {Str("a"), Str("b")}
AttrValues == {Str("x"), Str("y")}
Tags == {"div", "p"}

\* before the mount: the tree to mount is one of the base trees, and the
\* identities minted later differ from the ones written by hand
InitTrees ==
    /\ states = [k \in {START_ID} |-> Null]
    /\ oldVDOM = NoVDOM
    /\ dom = AppContainer
    /\ fresh = 10
    /\ cycle = 0
    /\ renders = 0
    /\ hook = NoHook
    /\ lastSet = NoSet
    /\ newVDOM = NoVDOM
    /\ changes = <<>>
    /\ baseVDOM = NoVDOM
    /\ nextTree \in BaseTrees
    /\ edits = 0
    /\ log = <<>>
    /\ trace = <<>>
    /\ claimed = <<>>

\* initialRender(tree, container) of the base tree
MountTree ==
    /\ log = <<>>
    /\ Commit(InDocument(InitialRender(nextTree, dom, Ctx)), "mount")
    /\ UNCHANGED <<nextTree, edits, claimed>>

CanEdit == log # <<>> /\ edits < MaxEdits

\* an edit: nextTree becomes a copy with a new node at a path.  The copy of
\* a node keeps its children array (the same object) unless the edit writes
\* the children; minted is the number of fresh identities the edit used.
Edit(path, node, minted, step) ==
    /\ nextTree' = VSetAt(nextTree, path, node)
    /\ edits' = edits + 1
    /\ fresh' = fresh + minted
    /\ log' = Append(log, step)
    /\ UNCHANGED <<states, oldVDOM, dom, cycle, renders, hook, lastSet,
                   newVDOM, changes, baseVDOM, trace, claimed>>

\* the nodeValue of a text description changes
EditText ==
    /\ CanEdit
    /\ \E path \in VPaths(nextTree) : \E v \in TextValues :
          /\ NodeAt(nextTree, path).type = TEXT_ELEMENT
          /\ v # PropValue(NodeAt(nextTree, path), "nodeValue")
          /\ Edit(path,
                  [NodeAt(nextTree, path) EXCEPT
                      !.props = <<Prop("nodeValue", v)>>],
                  0, "text")

\* a node is a new instance: its identity is a fresh one
EditId ==
    /\ CanEdit
    /\ \E path \in VPaths(nextTree) :
          Edit(path, [NodeAt(nextTree, path) EXCEPT !.id = fresh], 1, "id")

\* the children leaves an element can be given
NewLeaves(id) == {Text(id, "b"), Elem("span", id, <<>>, <<>>)}

\* a new last child
EditAppend ==
    /\ CanEdit
    /\ \E path \in VPaths(nextTree) : \E leaf \in NewLeaves(fresh) :
          /\ NodeAt(nextTree, path).type \notin {TEXT_ELEMENT} \cup Components
          /\ Len(NodeAt(nextTree, path).children) < 3
          /\ Edit(path,
                  [NodeAt(nextTree, path) EXCEPT
                      !.children = Append(@, leaf), !.cref = fresh + 1],
                  2, "append")

\* the last child is removed
EditRemove ==
    /\ CanEdit
    /\ \E path \in VPaths(nextTree) :
          /\ NodeAt(nextTree, path).children # <<>>
          /\ Edit(path,
                  [NodeAt(nextTree, path) EXCEPT
                      !.children = Front(@), !.cref = fresh],
                  1, "remove")

\* the title attribute is written
EditAttr ==
    /\ CanEdit
    /\ \E path \in VPaths(nextTree) : \E v \in AttrValues :
          /\ NodeAt(nextTree, path).type \notin {TEXT_ELEMENT} \cup Components
          /\ v # PropValue(NodeAt(nextTree, path), "title")
          /\ Edit(path,
                  [NodeAt(nextTree, path) EXCEPT
                      !.props = <<Prop("title", v)>>],
                  0, "attr")

\* the title attribute is renamed to lang: the key changes, the value and
\* the children array stay
EditRename ==
    /\ CanEdit
    /\ \E path \in VPaths(nextTree) :
          /\ NodeAt(nextTree, path).props # <<>>
          /\ NodeAt(nextTree, path).props[1].key = "title"
          /\ Edit(path,
                  [NodeAt(nextTree, path) EXCEPT
                      !.props = <<Prop("lang", @[1].value)>>],
                  0, "rename")

\* the tag of an element changes
EditType ==
    /\ CanEdit
    /\ \E path \in VPaths(nextTree) : \E tag \in Tags :
          /\ NodeAt(nextTree, path).type \notin {TEXT_ELEMENT} \cup Components
          /\ tag # NodeAt(nextTree, path).type
          /\ Edit(path, [NodeAt(nextTree, path) EXCEPT !.type = tag], 0,
                  "type")

\* the children array of a node is a new object with the same items
EditArray ==
    /\ CanEdit
    /\ \E path \in VPaths(nextTree) :
          /\ NodeAt(nextTree, path).type # TEXT_ELEMENT
          /\ Edit(path, [NodeAt(nextTree, path) EXCEPT !.cref = fresh], 1,
                  "array")

\* a re-render cycle whose new tree is nextTree in the place of getNewVDOM():
\* lines 413 and 416-418 of rerender
CycleTree ==
    /\ log # <<>>
    /\ cycle < MaxCycles
    /\ oldVDOM # NoVDOM \/ log[Len(log)] # "cycle"
    /\ Commit(IF oldVDOM = NoVDOM THEN Ctx ELSE Cycle(nextTree, Ctx), "cycle")
    /\ UNCHANGED <<nextTree, edits, claimed>>

NextTrees ==
    \/ MountTree
    \/ EditText
    \/ EditId
    \/ EditAppend
    \/ EditRemove
    \/ EditAttr
    \/ EditRename
    \/ EditType
    \/ EditArray
    \/ CycleTree

SpecTrees == InitTrees /\ [][NextTrees]_vars

-----------------------------------------------------------------------------
(* The state store called directly: render passes of a component that       *)
(* declares several states, and setters called while nothing is mounted     *)

\* the initial values handed to useState
Initials == {Num(0), Num(1), Null, Str("a")}

\* a render pass begins: no key is claimed yet
RenderPass ==
    /\ Len(log) < MaxSteps
    /\ claimed # <<>>
    /\ claimed' = <<>>
    /\ log' = Append(log, "render")
    /\ UNCHANGED <<states, oldVDOM, dom, fresh, cycle, renders, hook, lastSet,
                   newVDOM, changes, baseVDOM, nextTree, edits, trace>>

\* the key claimed by a useState call joins the keys of the pass
Claim(us) ==
    /\ Commit(us.ctx, "use")
    /\ claimed' = Append(claimed, us.key)

\* one useState(initialState) of the pass (index.tsx:132-158)
UseStateCall ==
    /\ Len(log) < MaxSteps
    /\ \E initialState \in Initials : Claim(useState(initialState, Ctx))
    /\ UNCHANGED <<nextTree, edits>>

\* the setter returned by an earlier useState call, called with a literal
\* (index.tsx:144-155)
SetterCall ==
    /\ Len(log) < MaxSteps
    /\ \E key \in Setters : \E v \in Literals :
          Commit(setState(key, v, Ctx), "set")
    /\ UNCHANGED <<nextTree, edits, claimed>>

NextHooks == RenderPass \/ UseStateCall \/ SetterCall

SpecHooks == Init /\ [][NextHooks]_vars

-----------------------------------------------------------------------------
(* Observations *)

\* the shape of a display tree: tags, text values and child order
RECURSIVE Shape(_)
Shape(node) ==
    IF node.kind = "text" THEN [kind |-> "text", value |-> node.value]
    ELSE [kind |-> "element", tag |-> node.tag,
          children |-> [i \in 1..Len(node.children) |->
                           Shape(node.children[i])]]

\* node.textContent
RECURSIVE TextContent(_)
RECURSIVE TextOfAll(_, _)
TextContent(node) ==
    IF node.kind = "text" THEN node.value ELSE TextOfAll(node.children, 1)

TextOfAll(children, i) ==
    IF i > Len(children) THEN ""
    ELSE TextContent(children[i]) \o TextOfAll(children, i + 1)

\* the path of the first element with a tag, in document order
RECURSIVE FindTag(_, _)
RECURSIVE FindTagIn(_, _, _)
FindTag(node, tag) ==
    IF node.kind # "element" THEN NotFound
    ELSE IF node.tag = tag THEN <<>>
    ELSE FindTagIn(node.children, 1, tag)

FindTagNext(children, i, tag, p) ==
    IF p # NotFound THEN <<i>> \o p ELSE FindTagIn(children, i + 1, tag)

FindTagIn(children, i, tag) ==
    IF i > Len(children) THEN NotFound
    ELSE FindTagNext(children, i, tag, FindTag(children[i], tag))

\* the first element with a tag among the mounted nodes
HasTag(tag) == FindTagIn(dom.children, 1, tag) # NotFound
FirstByTag(tag) == NodeAt(dom, FindTagIn(dom.children, 1, tag))

LastStep == IF log = <<>> THEN "none" ELSE log[Len(log)]

\* the program was mounted once and only clicked since
OnlyClicks ==
    /\ Len(log) >= 2
    /\ log[1] = "mount"
    /\ \A i \in 2..Len(log) : log[i] = "click"

\* the last step ran a diff of baseVDOM against newVDOM
Diffed == LastStep = "cycle" /\ baseVDOM # NoVDOM

\* the display tree that a fresh initial mount of a tree builds
FreshMount(tree) == InitialRender(tree, AppContainer, Ctx).container

-----------------------------------------------------------------------------
(* How two description trees differ *)

\* the two nodes differ in the way named by mode and in nothing else
Local(o, n, mode) ==
    CASE mode = "text" ->
            /\ o.type = TEXT_ELEMENT
            /\ n.type = TEXT_ELEMENT
            /\ n.id = o.id
            /\ n.children = o.children
            /\ PropValue(n, "nodeValue") # PropValue(o, "nodeValue")
      [] mode = "id" ->
            /\ n.id # o.id
            /\ n = [o EXCEPT !.id = n.id]
      [] mode = "remove" ->
            /\ o.children # <<>>
            /\ n = [o EXCEPT !.children = Front(o.children), !.cref = n.cref]
      [] mode = "append" ->
            /\ Len(n.children) = Len(o.children) + 1
            /\ n = [o EXCEPT !.children = Append(o.children,
                                                 n.children[Len(n.children)]),
                             !.cref = n.cref]

\* the same node on both sides, apart from what lies below one child
SameBut(o, n, i) ==
    /\ o.id = n.id
    /\ o.type = n.type
    /\ o.props = n.props
    /\ Len(o.children) = Len(n.children)
    /\ i \in 1..Len(o.children)
    /\ \A j \in 1..Len(o.children) : j # i => o.children[j] = n.children[j]

\* the trees differ in one node below the root (at any depth), in the way
\* named by mode
RECURSIVE DiffersBelow(_, _, _)
DiffersBelow(o, n, mode) ==
    \E i \in 1..Len(o.children) :
        /\ SameBut(o, n, i)
        /\ \/ Local(o.children[i], n.children[i], mode)
           \/ DiffersBelow(o.children[i], n.children[i], mode)

\* the path of the one node that differs
RECURSIVE DifferingPath(_, _, _)
DifferingPath(o, n, mode) ==
    IF Local(o, n, mode) THEN <<>>
    ELSE LET i == CHOOSE i \in 1..Len(o.children) :
                     o.children[i] # n.children[i]
         IN  <<i>> \o DifferingPath(o.children[i], n.children[i], mode)

-----------------------------------------------------------------------------
(* The claims *)

\* C1: after the first re-render cycle on a mounted tree P with a new tree N
\* (changes = diff(P, N); applyChangesToRealDOM(changes)) the live display
\* tree has the shape that a fresh initial mount of N produces.
C1_CycleMirrorsFreshMount ==
    (Diffed /\ cycle = 1) => Shape(dom) = Shape(FreshMount(newVDOM))

\* C2: after the mount of App, three clicks on the live button in sequence
\* leave a display tree whose h1 reads 'Count: 3'.
C2_ThreeClicksReadCountThree ==
    log = <<"mount", "click", "click", "click">>
        => TextContent(FirstByTag("h1")) = "Count: 3"

\* C3: across the re-renders triggered by the counter's setter, the div and
\* the button of the initial mount stay in the display tree, and the text
\* node of the count, and only it, is replaced in each cycle.
C3_OnlyCountTextReplaced ==
    OnlyClicks =>
        /\ FirstByTag("div").born = 0
        /\ FirstByTag("button").born = 0
        /\ FirstByTag("h1").born = 0
        /\ FirstByTag("h1").children[1].born = 0
        /\ FirstByTag("button").children[1].born = 0
        /\ FirstByTag("h1").children[2].born = cycle

\* C4: diff(T, T) is the empty change sequence, for every tree T.
C4_DiffOfSameTreeIsEmpty ==
    (Diffed /\ baseVDOM = newVDOM) => changes = <<>>

\* C4 witness: a diff of a tree with children against itself was computed
C4_Witness ==
    /\ Diffed
    /\ baseVDOM = newVDOM
    /\ baseVDOM.children # <<>>

\* C5: two trees with the same identities that differ only in the nodeValue
\* of one text node: diff returns exactly one change, a REPLACE_TEXT whose
\* oldNodeId is the identity of the parent element of that text node.
C5_OneReplaceTextWithParentId ==
    (Diffed /\ DiffersBelow(baseVDOM, newVDOM, "text")) =>
        /\ Len(changes) = 1
        /\ changes[1].type = "REPLACE_TEXT"
        /\ changes[1].oldNodeId =
              NodeAt(baseVDOM,
                     Front(DifferingPath(baseVDOM, newVDOM, "text"))).id

\* C6: two trees that differ only in the identity of one child node: diff
\* returns exactly one change, a REPLACE_NODE_WHERE_ID_CHANGED with the new
\* child subtree and the old child's identity, and nothing for descendants.
C6_OneReplaceWhereIdChanged ==
    (Diffed /\ DiffersBelow(baseVDOM, newVDOM, "id")) =>
        changes =
            <<ReplaceNodeWhereIdChanged(
                  NodeAt(newVDOM, DifferingPath(baseVDOM, newVDOM, "id")),
                  NodeAt(baseVDOM, DifferingPath(baseVDOM, newVDOM, "id")).id)>>

\* C7: the new root (same identity, same attributes) has the children of the
\* old root and one more child after them: diff returns exactly one change,
\* a NEW_NODE_ADDED with the new child and parentId the root's identity.
C7_OneNewNodeAdded ==
    (Diffed /\ Local(baseVDOM, newVDOM, "append")) =>
        changes = <<NewNodeAdded(newVDOM.children[Len(newVDOM.children)],
                                 baseVDOM.id)>>

\* C8: the new tree is the old tree without the last child of one element:
\* diff returns exactly one change, a DELETE_OLD whose subtree has the
\* identity of the removed child.
C8_OneDeleteOld ==
    (Diffed /\ (\/ Local(baseVDOM, newVDOM, "remove")
                \/ DiffersBelow(baseVDOM, newVDOM, "remove"))) =>
        /\ Len(changes) = 1
        /\ changes[1].type = "DELETE_OLD"
        /\ changes[1].vdom.id =
              LET el == NodeAt(baseVDOM,
                               DifferingPath(baseVDOM, newVDOM, "remove"))
              IN  el.children[Len(el.children)].id

\* C9: after a mount, the same setter called with a literal v1 and then with
\* a literal v2 leaves its slot holding v2, and exactly two complete
\* re-render cycles have run, the Previous-Tree Reference being the tree of
\* the last one.
C9_TwoLiteralSetsLastWriteWins ==
    ( /\ Len(log) >= 3
      /\ log[Len(log)] = "set"
      /\ log[Len(log) - 1] = "set"
      /\ lastSet.prev.key = lastSet.key
      /\ oldVDOM # NoVDOM ) =>
        /\ states[lastSet.key] = lastSet.value
        /\ cycle = lastSet.prev.before + 2
        /\ oldVDOM = newVDOM

\* C10: in every render after the first, the value returned by useState is
\* the value most recently written by the setter, whatever it is.
C10_UseStateReturnsLastWritten ==
    (renders >= 2 /\ lastSet # NoSet) => hook.value = lastSet.value

\* C11: within one render pass the first useState call claims the root key
\* START_ID and every further call claims a key that no earlier call of the
\* pass claimed, whatever the initial values are.
C11_KeysOfOnePassDistinct ==
    claimed # <<>> =>
        /\ claimed[1] = START_ID
        /\ \A i, j \in 1..Len(claimed) : i # j => claimed[i] # claimed[j]

\* the display node that the mounting of an App invocation builds: a stamped
\* div with the h1 of the count and the button
AppShape(node) ==
    /\ node.kind = "element"
    /\ node.tag = "div"
    /\ "data-id" \in DOMAIN node.attrs
    /\ Len(node.children) = 2
    /\ node.children[1].kind = "element"
    /\ node.children[1].tag = "h1"
    /\ Len(node.children[1].children) = 2
    /\ node.children[1].children[1] = TextNode(Str("Count: "), node.born)
    /\ node.children[2].kind = "element"
    /\ node.children[2].tag = "button"
    /\ TextContent(node.children[2]) = "Click Me"

\* the display node mirrors the description: same tag, stamped with the
\* description's identity, same children in the same order; a text node
\* with the nodeValue; a function node is the mounting of its result
RECURSIVE Mirrors(_, _)
Mirrors(vdom, node) ==
    IF vdom.type = TEXT_ELEMENT
    THEN /\ node.kind = "text"
         /\ node.value = ToStr(PropValue(vdom, "nodeValue"))
    ELSE IF IsComponent(vdom.type) THEN AppShape(node)
    ELSE /\ node.kind = "element"
         /\ node.tag = vdom.type
         /\ "data-id" \in DOMAIN node.attrs
         /\ node.attrs["data-id"] = vdom.id
         /\ Len(node.children) = Len(vdom.children)
         /\ \A i \in 1..Len(vdom.children) :
               Mirrors(vdom.children[i], node.children[i])

\* the container holds the mounting of the tree and nothing else
MirrorsIn(tree, container) ==
    /\ Len(container.children) = 1
    /\ Mirrors(tree, container.children[1])

\* C12: mounting a description tree into a present container produces a
\* display subtree that mirrors the description: one element per element
\* description with its tag, its identity stamp and its child order, one
\* text node per text description with its nodeValue, and the mounting of
\* the result in the place of every function node.  It is stated of the
\* live tree right after the mount and of a mount of every later tree
\* into an empty container.
C12_MountMirrorsDescription ==
    /\ log = <<"mount">> => MirrorsIn(nextTree, dom)
    /\ log # <<>> => MirrorsIn(nextTree, FreshMount(nextTree))

\* C12 witness: a tree with two children, one of them an element with a
\* child of its own, has just been mounted
C12_Witness ==
    /\ log = <<"mount">>
    /\ Len(nextTree.children) = 2
    /\ nextTree.children[1].children # <<>>
    /\ Len(dom.children[1].children) = 2

\* C13: the Previous-Tree Reference is absent before the first mount; when
\* a top-level initialRender into a present container completes it is that
\* top-level description; at the end of every re-render cycle it is the
\* new tree of that cycle.
C13_PreviousTreeIsTopLevelTree ==
    /\ log = <<>> => oldVDOM = NoVDOM
    /\ log = <<"mount">> => oldVDOM = nextTree
    /\ Diffed => oldVDOM = newVDOM

\* the identities of the element descriptions of a tree (text and function
\* descriptions are stamped nowhere)
RECURSIVE ElementIds(_)
ElementIds(vdom) ==
    (IF vdom.type = TEXT_ELEMENT \/ IsComponent(vdom.type) THEN {}
     ELSE {vdom.id})
    \cup UNION {ElementIds(vdom.children[i]) : i \in 1..Len(vdom.children)}

\* no function description in the tree
RECURSIVE NoComponents(_)
NoComponents(vdom) ==
    /\ ~IsComponent(vdom.type)
    /\ \A i \in 1..Len(vdom.children) : NoComponents(vdom.children[i])

\* the identities stamped in a display tree, in document order
RECURSIVE Stamps(_)
RECURSIVE StampsOfAll(_, _)
Stamps(node) ==
    IF node.kind # "element" THEN <<>>
    ELSE (IF "data-id" \in DOMAIN node.attrs THEN <<node.attrs["data-id"]>>
          ELSE <<>>)
         \o StampsOfAll(node.children, 1)

StampsOfAll(children, i) ==
    IF i > Len(children) THEN <<>>
    ELSE Stamps(children[i]) \o StampsOfAll(children, i + 1)

\* C14: at the end of the initial mount and of every re-render cycle, every
\* element description of the Previous-Tree Reference has exactly one
\* display element stamped with its identity, and every identity stamped
\* in the display tree is the identity of such a description.  It is
\* stated for the trees without function descriptions.
C14_BaselineMatchesDisplay ==
    ( /\ LastStep \in {"mount", "cycle"}
      /\ oldVDOM # NoVDOM
      /\ NoComponents(oldVDOM) ) =>
        /\ Range(Stamps(dom)) = ElementIds(oldVDOM)
        /\ Cardinality(Range(Stamps(dom))) = Len(Stamps(dom))

\* the lookup of change i of the last patch found nothing when the change
\* was applied
Missed(i) == querySelector(trace[i], TargetId(changes[i])) = NotFound

\* C15: when the target of a change is not found by the identity lookup,
\* applyChangesToRealDOM leaves the display tree as it is for that change
\* and goes on with the later changes of the list, in order: every change
\* of the list is applied, a change whose target is missing changes
\* nothing, and an insertion or deletion whose target is found does change
\* the tree.
C15_MissingTargetIsSkipped ==
    Diffed =>
        /\ Len(trace) = Len(changes) + 1
        /\ dom = trace[Len(trace)]
        /\ \A i \in 1..Len(changes) :
              /\ Missed(i) => trace[i + 1] = trace[i]
              /\ (~Missed(i)
                  /\ changes[i].type \in {"NEW_NODE_ADDED", "DELETE_OLD"})
                    => trace[i + 1] # trace[i]

\* C15 witness: a patch in which a change missed its target and a later
\* change of the same list found its own and changed the tree
C15_Witness ==
    /\ Diffed
    /\ Len(trace) = Len(changes) + 1
    /\ \E i, j \in 1..Len(changes) :
          /\ i < j
          /\ Missed(i)
          /\ ~Missed(j)
          /\ trace[j + 1] # trace[j]

\* C16: a setter called while no Previous-Tree Reference exists skips the
\* cycle: no new tree is computed (no identity is minted), no component is
\* invoked, the display tree is unchanged and the reference stays absent;
\* of the store, only the slot written by the setter changes.
C16_SetterWithoutPreviousTreeSkips ==
    [][ (log' # log /\ LastStep' = "set" /\ oldVDOM = NoVDOM) =>
            /\ dom' = dom
            /\ oldVDOM' = NoVDOM
            /\ newVDOM' = newVDOM
            /\ changes' = changes
            /\ cycle' = cycle
            /\ renders' = renders
            /\ hook' = hook
            /\ fresh' = fresh
            /\ DOMAIN states' = DOMAIN states \cup {lastSet'.key}
            /\ states'[lastSet'.key] = lastSet'.value
            /\ \A k \in DOMAIN states :
                  k # lastSet'.key => states'[k] = states[k] ]_vars

\* C16 witness: a setter has just written a value to its slot while nothing
\* was mounted
C16_Witness ==
    /\ LastStep = "set"
    /\ oldVDOM = NoVDOM
    /\ renders >= 1
    /\ lastSet.key \in DOMAIN states
    /\ Truthy(lastSet.value)
    /\ states[lastSet.key] = lastSet.value
    /\ dom = AppContainer

\* the change is a node-level replacement
IsReplacement(change) ==
    change.type \in {"REPLACE_NODE", "REPLACE_NODE_WHERE_ID_CHANGED"}

\* C17: when diff emits a node-level replacement for a node pair (here the
\* pair of the roots), that change is the only one it emits for the pair
\* and for everything below it: the children are compared only when
\* compareNode emitted nothing.
C17_ReplacementStopsRecursion ==
    ( /\ Diffed
      /\ compareNode(baseVDOM, newVDOM) # <<>>
      /\ IsReplacement(compareNode(baseVDOM, newVDOM)[1]) ) =>
        changes = compareNode(baseVDOM, newVDOM)

\* the path of the description with an identity in a tree
RECURSIVE VFind(_, _)
RECURSIVE VFindIn(_, _, _)
VFind(vdom, id) ==
    IF vdom.id = id THEN <<>> ELSE VFindIn(vdom.children, 1, id)

VFindNext(children, i, id, p) ==
    IF p # NotFound THEN <<i>> \o p ELSE VFindIn(children, i + 1, id)

VFindIn(children, i, id) ==
    IF i > Len(children) THEN NotFound
    ELSE VFindNext(children, i, id, VFind(children[i], id))

\* the position of the node pair a change of the last diff was emitted for:
\* a deletion carries the old child, every other change a node with the
\* identity of the new node of its pair or the new node itself
PairPath(change) ==
    IF change.type = "DELETE_OLD" THEN VFind(baseVDOM, change.vdom.id)
    ELSE VFind(newVDOM, change.vdom.id)

IsPrefix(p, q) == Len(p) <= Len(q) /\ SubSeq(q, 1, Len(p)) = p

\* p is q, an ancestor of q, or on a branch with a smaller child index
NotAfter(p, q) ==
    \/ IsPrefix(p, q)
    \/ \E k \in 1..Len(p) :
          /\ k <= Len(q)
          /\ SubSeq(p, 1, k - 1) = SubSeq(q, 1, k - 1)
          /\ p[k] < q[k]

\* C18: in the sequence returned by diff the change of a node pair comes
\* before every change of the pair's children, and the changes of child
\* index i come before those of child index j whenever i < j.
C18_ChangesInPreOrder ==
    Diffed =>
        \A i, j \in 1..Len(changes) :
            /\ PairPath(changes[i]) # NotFound
            /\ i < j => /\ PairPath(changes[i]) # PairPath(changes[j])
                        /\ NotAfter(PairPath(changes[i]), PairPath(changes[j]))

\* C18 witness: a diff with a change for a pair, a change below it, and a
\* change for a later child of the same parent
C18_Witness ==
    /\ Diffed
    /\ \E i, j, k \in 1..Len(changes) :
          /\ i < j
          /\ j < k
          /\ PairPath(changes[i]) # PairPath(changes[j])
          /\ IsPrefix(PairPath(changes[i]), PairPath(changes[j]))
          /\ ~IsPrefix(PairPath(changes[j]), PairPath(changes[k]))
          /\ NotAfter(PairPath(changes[j]), PairPath(changes[k]))

\* the display trees have the same shape, and the same stamps unless a
\* function description is involved (every invocation of a component mints
\* new identities)
SameDisplay(a, b, tree) ==
    /\ Shape(a) = Shape(b)
    /\ NoComponents(tree) => Stamps(a) = Stamps(b)

VRemoveAt(tree, path) ==
    VSetAt(tree, Front(path),
           [NodeAt(tree, Front(path)) EXCEPT
               !.children = RemoveIndex(@, Last(path))])

\* the display tree after applyChangesToRealDOM of the one change
\* delete-existing for the subtree at a path of the Previous-Tree Reference
AfterDelete(path) ==
    applyChangesToRealDOM(<<DeleteOld(NodeAt(oldVDOM, path))>>, 1, Ctx).dom

\* C20: after a delete-existing change for a subtree that is materialized
\* in the display tree, no display node produced from the subtree remains,
\* whatever the kind of its root is: the display tree is the one of the
\* tree without the subtree.
C20_DeleteRemovesAnyKind ==
    ( /\ log # <<>>
      /\ oldVDOM # NoVDOM
      /\ Shape(dom) = Shape(FreshMount(oldVDOM)) ) =>
        \A path \in VPaths(oldVDOM) \ {<<>>} :
            Shape(AfterDelete(path))
                = Shape(FreshMount(VRemoveAt(oldVDOM, path)))

\* the attribute mapping of a description, as a set of key-value pairs
AttributeMap(node) == {<<node.props[i].key, node.props[i].value>> :
                          i \in 1..Len(node.props)}

\* the positions that the two trees of the last diff both have
CommonPaths == VPaths(baseVDOM) \cap VPaths(newVDOM)

\* the pair at a position is a pair of elements of one identity and kind
\* whose attribute mappings differ
AttributesDiffer(path) ==
    /\ NodeAt(baseVDOM, path).id = NodeAt(newVDOM, path).id
    /\ NodeAt(baseVDOM, path).type = NodeAt(newVDOM, path).type
    /\ NodeAt(baseVDOM, path).type # TEXT_ELEMENT
    /\ AttributeMap(NodeAt(baseVDOM, path)) # AttributeMap(NodeAt(newVDOM, path))

\* C21: for two element nodes of one identity and kind whose attribute
\* mappings differ as key-to-value maps (a key added, removed, renamed or
\* given another value), diff emits a REPLACE_NODE change for that node.
C21_AttributeDifferenceReplaces ==
    Diffed =>
        \A path \in CommonPaths :
            AttributesDiffer(path) =>
                \E i \in 1..Len(changes) :
                    /\ changes[i].type = "REPLACE_NODE"
                    /\ changes[i].vdom.id = NodeAt(newVDOM, path).id

\* the step is a setter call
SetterSteps == {"click", "set", "callback"}

PassOf(i) == Cardinality({j \in 1..i : log[j] = "render"})

\* the number of useState calls of a render pass
UsesIn(pass) ==
    Cardinality({i \in 1..Len(log) : log[i] = "use" /\ PassOf(i) = pass})

\* every completed render pass made as many useState calls as the first
\* one, and the current pass has made no more
SameDeclarations ==
    /\ UsesIn(0) >= 1
    /\ \A pass \in 0..(PassOf(Len(log)) - 1) : UsesIn(pass) = UsesIn(0)
    /\ UsesIn(PassOf(Len(log))) <= UsesIn(0)

\* C23: when every render makes the same k useState calls, the state store
\* never holds more than k keys, whatever renders and setter calls have
\* happened.
C23_AtMostOneKeyPerDeclaration ==
    SameDeclarations => Cardinality(DOMAIN states) <= UsesIn(0)

\* C24: on mount every attribute key other than children is written under
\* its literal key, also after a special case was handled: the onClick of
\* the button of App, handled as an event listener, is also an attribute
\* onClick of the display button.
C24_LiteralKeyAlwaysWritten ==
    (LastStep = "mount" /\ HasTag("button")) =>
        /\ FirstByTag("button").listeners # <<>>
        /\ "onClick" \in DOMAIN FirstByTag("button").attrs

====
